---- MODULE Spec2Model ----
(***************************************************************************)
(* Model of litcitgraph/graphs.py: the citation graph (a DiGraph with      *)
(* traversal metadata), its two mutation primitives and the build driven   *)
(* by build_from_ids: one initialisation pass over the seed identifiers    *)
(* followed by target_iter_depth expansion passes.                         *)
(*                                                                         *)
(* The code is sequential.  The only places where control leaves it are    *)
(* the calls to the lookup collaborator (get_from_scopus, and the          *)
(* iteration over what get_refs_from_scopus returns), where the            *)
(* collaborator may also raise.  A step of the model is therefore the code *)
(* between two such calls: one seed, or one (parent, child) pair.          *)
(***************************************************************************)
EXTENDS Integers, FiniteSets, TLC

\* ------------------------------------------------------------------ bounds
MaxRetrievals == 4  \* cap on retrievals_total: lookup answers in one build
MaxDepth == 2       \* largest target_iter_depth
NumPapers == 4      \* records the database can answer with
MaxUpserts == 2     \* direct calls of the two primitives on one graph
MaxWeight == 2      \* edge weights are 1..MaxWeight

\* ------------------------------------------------------------- data types
\* PaperInfo: equal when all fields are equal; the node key is scopus_id alone.
\* The database holds records 1..NumPapers; the first two are two records of
\* one paper (same scopus_id, different properties), the others are papers
\* of their own.
PaperRecord(k) == [scopus_id |-> IF k <= 2 THEN 1 ELSE k - 1, props |-> k]
PaperInfo == {PaperRecord(k) : k \in 1..NumPapers}
\* Python's None, as a lookup result or a child of a pair.
None == [scopus_id |-> 0, props |-> 0]
\* Python's True and False, and an attribute that was never assigned.
Bool == {"True", "False"}
Unset == "unset"
\* edge_weight=None, and an edge that carries no 'weight' attribute.
NoWeight == -1

graph_properties_as_dict(paper) == paper.props

\* get_refs_from_scopus(papers, iter_depth) yields the references of the
\* papers it is given: the parent of every pair is one of them.
get_refs_parents(papers) == papers

\* ------------------------------------------------------------------ state
VARIABLES
    self,               \* the CitationGraph object: nodes, edges and metadata
    pc,                 \* where build_from_ids stands
    ids,                \* identifiers of the argument `ids` not yet consumed
    n_ids,              \* argument: length of `ids`
    use_doi_arg,        \* argument: use_doi
    target_iter_depth,  \* argument: target_iter_depth
    it,                 \* loop variable of build_from_ids
    papers_init,        \* local of __initialise
    papers_iteration,   \* local of __iterate
    \* history variables, read by the properties only
    lookups,            \* calls of get_from_scopus
    ref_calls,          \* calls of get_refs_from_scopus
    init_runs,          \* calls of __initialise
    resolved,           \* items resolved: seeds found, pairs with a child
    found,              \* the papers the seed lookups answered with
    returned,           \* <<parent id, child id>> of this pass, child present
    pass_nodes,         \* node ids when the current pass began
    snapshot,           \* the object as the first completed build left it
    upserts             \* what the direct calls of the primitives asked for

vars == <<self, pc, ids, n_ids, use_doi_arg, target_iter_depth, it,
          papers_init, papers_iteration, lookups, ref_calls,
          init_runs, resolved, found, returned, pass_nodes, snapshot,
          upserts>>

args == <<n_ids, use_doi_arg, target_iter_depth>>
history == <<lookups, ref_calls, init_runs, resolved, found, returned,
             pass_nodes>>

EmptyMap == [x \in {} |-> 0]

\* No primitive has been called directly: no call counted, no last call, no
\* node and no edge asked for.
NoCall ==
    [kind |-> "none", parent |-> 0, child |-> 0, props |-> 0,
     weight |-> NoWeight]
NoUpserts ==
    [calls |-> 0, last |-> NoCall, first_props |-> EmptyMap,
     last_weight |-> EmptyMap]

\* ---------------------------------------------------- mutation primitives
\* Variant: the node is (re)written whether or not it exists.
add_cit_graph_node_overwrite(graph, node, node_props) ==
    [graph EXCEPT !.nodes = (node :> node_props) @@ @]

add_cit_graph_node(graph, node, node_props) ==
    IF node \notin DOMAIN graph.nodes
    THEN [graph EXCEPT !.nodes = (node :> node_props) @@ @]
    ELSE graph

\* Variant: the child's properties are written even when the child exists.
add_cit_graph_edge_refresh_child(graph, parent_node, parent_node_props, child_node, child_node_props, edge_weight) ==
    [graph EXCEPT
        !.nodes = (child_node :> child_node_props) @@ @ @@
                  (parent_node :> parent_node_props),
        !.edges = IF <<parent_node, child_node>> \in DOMAIN @ /\
                     edge_weight = NoWeight
                  THEN @
                  ELSE (<<parent_node, child_node>> :> edge_weight) @@ @]

\* Variant: the weight is written whatever it is, None included.
add_cit_graph_edge_weight_always(graph, parent_node, parent_node_props, child_node, child_node_props, edge_weight) ==
    [graph EXCEPT
        !.nodes = @ @@ (parent_node :> parent_node_props) @@
                  (child_node :> child_node_props),
        !.edges = (<<parent_node, child_node>> :> edge_weight) @@ @]

\* Variant: nothing is done for a child that is a node already.
add_cit_graph_edge_skip_known_child(graph, parent_node, parent_node_props, child_node, child_node_props, edge_weight) ==
    IF child_node \in DOMAIN graph.nodes
    THEN graph
    ELSE [graph EXCEPT
            !.nodes = (child_node :> child_node_props) @@
                      (parent_node :> parent_node_props) @@ @,
            !.edges = (<<parent_node, child_node>> :> edge_weight) @@ @]

add_cit_graph_edge(graph, parent_node, parent_node_props, child_node, child_node_props, edge_weight) ==
    LET g1 == IF parent_node \notin DOMAIN graph.nodes
              THEN [graph EXCEPT !.nodes = (parent_node :> parent_node_props) @@ @]
              ELSE graph
        g2 == IF child_node \notin DOMAIN g1.nodes
              THEN [g1 EXCEPT !.nodes = (child_node :> child_node_props) @@ @]
              ELSE g1
        e  == <<parent_node, child_node>>
        g3 == IF e \notin DOMAIN g2.edges
              THEN [g2 EXCEPT !.edges = (e :> NoWeight) @@ @]
              ELSE g2
    IN  IF edge_weight # NoWeight
        THEN [g3 EXCEPT !.edges = (e :> edge_weight) @@ @]
        ELSE g3

\* ------------------------------------------------------------ construction
\* CitationGraph.__init__: an empty graph; use_doi is declared, not assigned.
NewGraph ==
    [nodes                |-> EmptyMap,
     edges                |-> EmptyMap,
     use_doi              |-> Unset,
     iter_depth           |-> 0,
     papers_by_iter_depth |-> EmptyMap,
     retrievals_total     |-> 0,
     retrievals_failed    |-> 0]

Init ==
    /\ self = NewGraph
    /\ pc = "new"
    /\ n_ids \in 0..MaxRetrievals
    /\ use_doi_arg \in Bool
    /\ target_iter_depth \in -1..MaxDepth
    /\ ids = n_ids
    /\ it = 0
    /\ papers_init = {}
    /\ papers_iteration = {}
    /\ lookups = 0
    /\ ref_calls = 0
    /\ init_runs = 0
    /\ resolved = 0
    /\ found = {}
    /\ returned = {}
    /\ pass_nodes = {}
    /\ snapshot = NewGraph
    /\ upserts = NoUpserts

\* ------------------------------------------------------------ __initialise
\* Variant: the `continue` after a failed lookup is missing.
initialise_item_no_continue(graph, papers, paper_info) ==
    LET g1 == [graph EXCEPT !.retrievals_total = @ + 1]
        g2 == IF paper_info = None
              THEN [g1 EXCEPT !.retrievals_failed = @ + 1]
              ELSE g1
    IN  [graph  |-> add_cit_graph_node(g2, paper_info.scopus_id,
                                graph_properties_as_dict(paper_info)),
         papers |-> papers \cup {paper_info}]

\* Variant: the lookup is counted only once it is known to have succeeded.
initialise_item_count_late(graph, papers, paper_info) ==
    IF paper_info = None
    THEN [graph  |-> [graph EXCEPT !.retrievals_failed = @ + 1],
          papers |-> papers]
    ELSE [graph  |-> add_cit_graph_node(
                         [graph EXCEPT !.retrievals_total = @ + 1],
                         paper_info.scopus_id,
                         graph_properties_as_dict(paper_info)),
          papers |-> papers \cup {paper_info}]

\* One turn of the loop over `ids`, with paper_info the result of the lookup.
initialise_item(graph, papers, paper_info) ==
    LET g1 == [graph EXCEPT !.retrievals_total = @ + 1]
    IN  IF paper_info = None
        THEN [graph  |-> [g1 EXCEPT !.retrievals_failed = @ + 1],
              papers |-> papers]
        ELSE [graph  |-> add_cit_graph_node(g1, paper_info.scopus_id,
                                    graph_properties_as_dict(paper_info)),
              papers |-> IF paper_info \notin papers
                         THEN papers \cup {paper_info}
                         ELSE papers]

\* The assignment that closes __initialise.
initialise_end(graph, papers) ==
    [graph EXCEPT !.papers_by_iter_depth = (graph.iter_depth :> papers) @@ @]

\* --------------------------------------------------------------- __iterate
\* Variant: a child is new when its value is new, whatever the graph holds.
is_new_child_by_value(graph, papers, child) ==
    child \notin papers

\* The test that admits a child to the next frontier.
is_new_child(graph, papers, child) ==
    /\ child \notin papers
    /\ child.scopus_id \notin DOMAIN graph.nodes

\* Variant: the edge is added only for a child that is new.
iterate_pair_edge_if_new(graph, papers, parent, child) ==
    LET g1 == [graph EXCEPT !.retrievals_total = @ + 1]
    IN  IF child = None
        THEN [graph  |-> [g1 EXCEPT !.retrievals_failed = @ + 1],
              papers |-> papers]
        ELSE IF is_new_child(g1, papers, child)
        THEN [graph  |-> add_cit_graph_edge(g1,
                             parent.scopus_id, graph_properties_as_dict(parent),
                             child.scopus_id, graph_properties_as_dict(child),
                             NoWeight),
              papers |-> papers \cup {child}]
        ELSE [graph |-> g1, papers |-> papers]

\* Variant: an absent child is skipped before the pair is counted.
iterate_pair_count_late(graph, papers, parent, child) ==
    IF child = None
    THEN [graph  |-> [graph EXCEPT !.retrievals_failed = @ + 1],
          papers |-> papers]
    ELSE [graph  |-> add_cit_graph_edge(
                         [graph EXCEPT !.retrievals_total = @ + 1],
                         parent.scopus_id, graph_properties_as_dict(parent),
                         child.scopus_id, graph_properties_as_dict(child),
                         NoWeight),
          papers |-> IF is_new_child(graph, papers, child)
                     THEN papers \cup {child}
                     ELSE papers]

\* Variant: the `continue` is missing, an absent child goes on to the
\* upsert as the paper without identifier.
iterate_pair_no_continue(graph, papers, parent, child) ==
    LET g1 == [graph EXCEPT !.retrievals_total = @ + 1]
        g2 == IF child = None
              THEN [g1 EXCEPT !.retrievals_failed = @ + 1]
              ELSE g1
    IN  [graph  |-> add_cit_graph_edge(g2,
                        parent.scopus_id, graph_properties_as_dict(parent),
                        child.scopus_id, graph_properties_as_dict(child),
                        NoWeight),
         papers |-> IF is_new_child(g2, papers, child)
                    THEN papers \cup {child}
                    ELSE papers]

\* One turn of the loop over `references`.
iterate_pair(graph, papers, parent, child) ==
    LET g1 == [graph EXCEPT !.retrievals_total = @ + 1]
    IN  IF child = None
        THEN [graph  |-> [g1 EXCEPT !.retrievals_failed = @ + 1],
              papers |-> papers]
        ELSE [graph  |-> add_cit_graph_edge(g1,
                             parent.scopus_id, graph_properties_as_dict(parent),
                             child.scopus_id, graph_properties_as_dict(child),
                             NoWeight),
              papers |-> IF is_new_child(g1, papers, child)
                         THEN papers \cup {child}
                         ELSE papers]

\* Variant: the frontier is stored under the next depth, iter_depth stays.
iterate_end_no_advance(graph, papers) ==
    [graph EXCEPT !.papers_by_iter_depth =
                      ((graph.iter_depth + 1) :> papers) @@ @]

\* Variant: the new frontier also replaces the one the pass started from.
iterate_end_replace_current(graph, papers) ==
    LET target == graph.iter_depth + 1
    IN  [graph EXCEPT !.iter_depth = target,
                      !.papers_by_iter_depth =
                          (target :> papers) @@ (graph.iter_depth :> papers) @@ @]

\* The two assignments that close __iterate.
iterate_end(graph, papers) ==
    LET target == graph.iter_depth + 1
    IN  [graph EXCEPT !.iter_depth = target,
                      !.papers_by_iter_depth = (target :> papers) @@ @]

\* ---------------------------------------------------------- build_from_ids
\* Variant: the validation refuses 0 as well.
rejects_depth_nonpositive(depth) == depth <= 0

\* Variant: the validation lets -1 through.
rejects_depth_below_minus_one(depth) == depth < -1

rejects_depth(depth) == depth < 0

\* Variant: the loop runs once more than asked.
loop_continues_inclusive(i, depth) == i <= depth

\* for it in range(target_iter_depth): whether another turn follows.
loop_continues(i, depth) == i < depth

\* build_from_ids raises ValueError before anything else happens.
BuildReject ==
    /\ pc = "new"
    /\ rejects_depth(target_iter_depth)
    /\ pc' = "rejected"
    /\ UNCHANGED <<upserts, snapshot, self, ids, args, it, papers_init, papers_iteration,
                   history>>

\* build_from_ids accepts its arguments and enters __initialise.
BuildStart ==
    /\ pc = "new"
    /\ ~rejects_depth(target_iter_depth)
    /\ self' = [self EXCEPT !.use_doi = use_doi_arg]
    /\ papers_init' = {}
    /\ init_runs' = init_runs + 1
    /\ pc' = "init"
    /\ UNCHANGED <<upserts, snapshot, ids, args, it, papers_iteration, lookups, ref_calls,
                   resolved, found, returned, pass_nodes>>

\* One seed: get_from_scopus answers with a paper or with None.
InitItem ==
    /\ pc = "init"
    /\ ids > 0
    /\ \E paper_info \in PaperInfo \cup {None} :
         LET r == initialise_item(self, papers_init, paper_info)
         IN  /\ self' = r.graph
             /\ papers_init' = r.papers
             /\ resolved' = IF paper_info = None THEN resolved ELSE resolved + 1
             /\ found' = IF paper_info = None THEN found
                          ELSE found \cup {paper_info}
    /\ ids' = ids - 1
    /\ lookups' = lookups + 1
    /\ UNCHANGED <<upserts, snapshot, pc, args, it, papers_iteration, ref_calls, init_runs,
                   returned, pass_nodes>>

\* `ids` is exhausted: __initialise records the depth-0 frontier and returns.
InitEnd ==
    /\ pc = "init"
    /\ ids = 0
    /\ self' = initialise_end(self, papers_init)
    /\ it' = 0
    /\ pc' = "loop"
    /\ UNCHANGED <<upserts, snapshot, ids, args, papers_init, papers_iteration, history>>

\* The for loop starts another __iterate, which asks for the references.
IterStart ==
    /\ pc = "loop"
    /\ loop_continues(it, target_iter_depth)
    /\ papers_iteration' = {}
    /\ ref_calls' = ref_calls + 1
    /\ returned' = {}
    /\ pass_nodes' = DOMAIN self.nodes
    /\ pc' = "iter"
    /\ UNCHANGED <<upserts, snapshot, self, ids, args, it, papers_init, lookups, init_runs,
                   resolved, found>>

\* One (parent, child) pair of the references.
IterPair ==
    /\ pc = "iter"
    /\ self.retrievals_total < MaxRetrievals
    /\ \E parent \in get_refs_parents(self.papers_by_iter_depth[self.iter_depth]),
          child \in PaperInfo \cup {None} :
         LET r == iterate_pair(self, papers_iteration, parent, child)
         IN  /\ self' = r.graph
             /\ papers_iteration' = r.papers
             /\ resolved' = IF child = None THEN resolved ELSE resolved + 1
             /\ returned' = IF child = None THEN returned
                            ELSE returned \cup
                                 {<<parent.scopus_id, child.scopus_id>>}
    /\ UNCHANGED <<upserts, snapshot, pc, ids, args, it, papers_init, lookups, ref_calls,
                   init_runs, found, pass_nodes>>

\* The references are exhausted: __iterate advances the depth and returns.
IterEnd ==
    /\ pc = "iter"
    /\ self' = iterate_end(self, papers_iteration)
    /\ it' = it + 1
    /\ pc' = "loop"
    /\ UNCHANGED <<upserts, snapshot, ids, args, papers_init, papers_iteration, history>>

\* Variant: build_from_ids also returns when the last frontier is empty.
BuildDone_stop_on_empty ==
    /\ pc = "loop"
    /\ \/ ~loop_continues(it, target_iter_depth)
       \/ self.papers_by_iter_depth[self.iter_depth] = {}
    /\ pc' = "done"
    /\ snapshot' = IF init_runs = 1 THEN self ELSE snapshot
    /\ UNCHANGED <<upserts, self, ids, args, it, papers_init, papers_iteration,
                   history>>

\* The for loop is over: build_from_ids returns.
BuildDone ==
    /\ pc = "loop"
    /\ ~loop_continues(it, target_iter_depth)
    /\ pc' = "done"
    /\ snapshot' = IF init_runs = 1 THEN self ELSE snapshot
    /\ UNCHANGED <<upserts, self, ids, args, it, papers_init, papers_iteration,
                   history>>

\* Variant: the pass is closed on the way out, as by a `finally`.
FatalError_finally ==
    /\ \/ pc = "init" /\ ids > 0
       \/ pc = "iter"
    /\ self' = IF pc = "iter" THEN iterate_end(self, papers_iteration)
               ELSE self
    /\ pc' = "aborted"
    /\ UNCHANGED <<upserts, snapshot, ids, args, it, papers_init,
                   papers_iteration, history>>

\* The lookup collaborator raises: the exception leaves build_from_ids.
FatalError ==
    /\ \/ pc = "init" /\ ids > 0
       \/ pc = "iter"
    /\ pc' = "aborted"
    /\ UNCHANGED <<upserts, snapshot, self, ids, args, it, papers_init, papers_iteration,
                   history>>

Build ==
    \/ BuildReject
    \/ BuildStart
    \/ InitItem
    \/ InitEnd
    \/ IterStart
    \/ IterPair
    \/ IterEnd
    \/ BuildDone

Next == Build \/ FatalError

Spec == Init /\ [][Next]_vars

\* --------------------------------------------- build_from_ids, called again
\* The caller invokes build_from_ids once more on the object a completed
\* build has left, with arguments of its choice (as many identifiers as the
\* cap on retrievals_total still allows).  The method keeps no record of
\* having run: the call starts like the first one, on the object as it is.
Rebuild ==
    /\ pc = "done"
    /\ init_runs = 1
    /\ n_ids' \in 0..(MaxRetrievals - self.retrievals_total)
    /\ use_doi_arg' \in Bool
    /\ target_iter_depth' \in -1..MaxDepth
    /\ ids' = n_ids'
    /\ pc' = "new"
    /\ UNCHANGED <<upserts, snapshot, self, it, papers_init, papers_iteration,
                   history>>

RebuildNext == Next \/ Rebuild

RebuildSpec == Init /\ [][RebuildNext]_vars

\* ------------------------------------------- the primitives, called directly
\* add_cit_graph_node and add_cit_graph_edge are module-level functions: any
\* caller may apply them to a graph.  Here they are applied to a new graph,
\* with the id and the properties of any paper and with any weight.
EdgeWeight == {NoWeight} \cup (1..MaxWeight)

\* The properties first asked for each node id, after one more id.
NoteNode(first, paper) ==
    IF paper.scopus_id \in DOMAIN first THEN first
    ELSE (paper.scopus_id :> graph_properties_as_dict(paper)) @@ first

\* The weight last asked for each edge, after one more call.
NoteWeight(last, e, weight) ==
    IF weight # NoWeight THEN (e :> weight) @@ last
    ELSE IF e \in DOMAIN last THEN last
    ELSE (e :> NoWeight) @@ last

UpsertNode ==
    /\ pc = "new"
    /\ upserts.calls < MaxUpserts
    /\ \E paper \in PaperInfo :
         /\ self' = add_cit_graph_node(self, paper.scopus_id,
                                       graph_properties_as_dict(paper))
         /\ upserts' =
              [calls |-> upserts.calls + 1,
               last |-> [kind |-> "node", parent |-> paper.scopus_id,
                         child |-> 0,
                         props |-> graph_properties_as_dict(paper),
                         weight |-> NoWeight],
               first_props |-> NoteNode(upserts.first_props, paper),
               last_weight |-> upserts.last_weight]
    /\ UNCHANGED <<pc, ids, args, it, papers_init, papers_iteration, history,
                   snapshot>>

UpsertEdge ==
    /\ pc = "new"
    /\ upserts.calls < MaxUpserts
    /\ \E parent \in PaperInfo, child \in PaperInfo, weight \in EdgeWeight :
         /\ self' = add_cit_graph_edge(self,
                         parent.scopus_id, graph_properties_as_dict(parent),
                         child.scopus_id, graph_properties_as_dict(child),
                         weight)
         /\ upserts' =
              [calls |-> upserts.calls + 1,
               last |-> [kind |-> "edge", parent |-> parent.scopus_id,
                         child |-> child.scopus_id, props |-> 0,
                         weight |-> weight],
               first_props |-> NoteNode(NoteNode(upserts.first_props,
                                                 parent), child),
               last_weight |-> NoteWeight(upserts.last_weight,
                                   <<parent.scopus_id, child.scopus_id>>,
                                   weight)]
    /\ UNCHANGED <<pc, ids, args, it, papers_init, papers_iteration, history,
                   snapshot>>

\* One new graph, no build pending.
PrimInit ==
    /\ Init
    /\ n_ids = 0
    /\ use_doi_arg = "True"
    /\ target_iter_depth = 0

PrimNext == UpsertNode \/ UpsertEdge

PrimSpec == PrimInit /\ [][PrimNext]_vars

\* A build whose collaborator never raises: every step of the sequential
\* code is eventually taken.
LiveSpec == Init /\ [][Build]_vars /\ WF_vars(Build)


\* ============================================================== properties
Depths == DOMAIN self.papers_by_iter_depth
Frontier(d) == self.papers_by_iter_depth[d]
FrontierIds(d) == {p.scopus_id : p \in Frontier(d)}
Nodes == DOMAIN self.nodes
Edges == DOMAIN self.edges

\* __initialise has returned (also when a later pass was aborted).
InitCompleted ==
    \/ pc \in {"loop", "iter", "done"}
    \/ pc = "aborted" /\ ref_calls > 0

\* C1. Frontier disjointness: no scopus_id belongs to papers of two
\* different depths of papers_by_iter_depth, after initialisation and after
\* every expansion pass (and at every step in between).
FrontierDisjoint ==
    \A d1 \in Depths : \A d2 \in Depths :
        d1 # d2 => FrontierIds(d1) \cap FrontierIds(d2) = {}

\* Three depths hold papers, and a paper of depth 0 was met again as the
\* child of a depth-1 parent while depth 2 was built.
FrontierDisjointWitness ==
    /\ pc = "loop"
    /\ self.iter_depth = 2
    /\ \A d \in 0..2 : Frontier(d) # {}
    /\ \E e \in Edges : e[1] \in FrontierIds(1) /\ e[2] \in FrontierIds(0)
    /\ FrontierIds(0) \cap FrontierIds(1) = {}

\* C2 as stated: the keys of papers_by_iter_depth are exactly 0..iter_depth
\* at every point from construction on.
DepthContiguityAlways ==
    Depths = 0..self.iter_depth

\* C2 amended: once __initialise has returned, the keys of
\* papers_by_iter_depth are exactly 0..iter_depth, inside and between
\* expansion passes and after the build; until then (a new graph, a rejected
\* call, a running or aborted initialisation) there is no key at all and
\* iter_depth is 0.
DepthContiguityOnceInitialised ==
    IF InitCompleted
    THEN Depths = 0..self.iter_depth
    ELSE Depths = {} /\ self.iter_depth = 0

\* Inside the second pass, after a pair has been consumed.
DepthContiguityWitness ==
    /\ pc = "iter"
    /\ self.iter_depth = 1
    /\ papers_iteration # {}
    /\ Depths = {0, 1}

\* C3. Counter consistency: at every point of a build, retrievals_total is
\* retrievals_failed plus the number of resolved items (seeds found, pairs
\* with a child, papers met again included).
CounterConsistency ==
    self.retrievals_total = self.retrievals_failed + resolved

\* Inside a pass: a failure was counted, and more items were resolved than
\* the graph has nodes (a paper was met again).
CounterConsistencyWitness ==
    /\ pc = "iter"
    /\ self.retrievals_failed >= 1
    /\ resolved >= 3
    /\ Cardinality(Nodes) < resolved

\* C4. retrievals_failed <= retrievals_total in every state, and no step
\* lowers either counter.
CountersMonotone ==
    /\ [](self.retrievals_failed <= self.retrievals_total)
    /\ [][/\ self'.retrievals_total >= self.retrievals_total
          /\ self'.retrievals_failed >= self.retrievals_failed]_vars

\* A finished build with at least one pass in which lookups failed and
\* lookups succeeded.
CountersMonotoneWitness ==
    /\ pc = "done"
    /\ self.iter_depth >= 1
    /\ self.retrievals_failed >= 2
    /\ 0 < resolved
    /\ self.retrievals_failed < self.retrievals_total

\* C5. A negative target_iter_depth is refused before any lookup: no call
\* of get_from_scopus or get_refs_from_scopus is made and the graph is what
\* the constructor left.
NegativeDepthRejected ==
    target_iter_depth < 0 =>
        /\ pc \in {"new", "rejected"}
        /\ lookups = 0
        /\ ref_calls = 0
        /\ init_runs = 0
        /\ self = NewGraph

\* The call with a negative depth and a non-empty seed sequence has raised.
NegativeDepthRejectedWitness ==
    /\ pc = "rejected"
    /\ target_iter_depth = -1
    /\ n_ids > 0

\* C6. A build with target_iter_depth = k >= 0 whose collaborator never
\* raises runs __initialise once, then __iterate k times, one pass after the
\* other; iter_depth changes only when a pass ends, by exactly +1; and the
\* build ends, with iter_depth = k.
BuildRunsToDepth ==
    /\ [](pc = "done" => /\ init_runs = 1
                         /\ ref_calls = target_iter_depth
                         /\ it = target_iter_depth
                         /\ self.iter_depth = target_iter_depth)
    /\ [](pc = "iter" => ref_calls = it + 1 /\ self.iter_depth = it)
    /\ [](pc = "loop" => ref_calls = it /\ self.iter_depth = it)
    /\ [][IF pc = "iter" /\ pc' = "loop"
          THEN self'.iter_depth = self.iter_depth + 1
          ELSE self'.iter_depth = self.iter_depth]_vars
    /\ (pc = "new" /\ target_iter_depth >= 0) ~> (pc = "done")

\* A build to depth 2 has ended after two passes that both found papers.
BuildRunsToDepthWitness ==
    /\ pc = "done"
    /\ target_iter_depth = 2
    /\ self.iter_depth = 2
    /\ ref_calls = 2
    /\ Frontier(1) # {}
    /\ Frontier(2) # {}

\* C7. target_iter_depth = 0 is accepted and only initialises: no reference
\* lookup is made and no edge exists; at the end the nodes are the scopus
\* ids of the seeds found, iter_depth is 0 and papers_by_iter_depth has the
\* single key 0, holding the seeds found.
TargetZeroOnlyInitialises ==
    target_iter_depth = 0 =>
        /\ pc # "rejected"
        /\ ref_calls = 0
        /\ Edges = {}
        /\ self.iter_depth = 0
        /\ pc = "done" =>
             /\ init_runs = 1
             /\ Nodes = {p.scopus_id : p \in found}
             /\ Depths = {0}
             /\ Frontier(0) = found
             /\ self.retrievals_total = n_ids

\* Two seeds, both found, depth 0: two nodes, two retrievals, no failure.
TargetZeroWitness ==
    /\ pc = "done"
    /\ target_iter_depth = 0
    /\ n_ids = 2
    /\ Cardinality(Nodes) = 2
    /\ Cardinality(Frontier(0)) = 2
    /\ self.retrievals_total = 2
    /\ self.retrievals_failed = 0

\* C8. A seed lookup that answers None adds one to retrievals_total and to
\* retrievals_failed, leaves nodes, edges and the depth-0 accumulator alone
\* and goes on with the next seed; __initialise returns only when every
\* seed has been looked up.
SeedFailureSkipped ==
    /\ [][(pc = "init" /\ lookups' = lookups + 1 /\ resolved' = resolved) =>
            /\ self'.retrievals_total = self.retrievals_total + 1
            /\ self'.retrievals_failed = self.retrievals_failed + 1
            /\ self'.nodes = self.nodes
            /\ self'.edges = self.edges
            /\ self'.papers_by_iter_depth = self.papers_by_iter_depth
            /\ papers_init' = papers_init
            /\ pc' = "init"
            /\ ids' = ids - 1]_vars
    /\ [](InitCompleted => ids = 0 /\ lookups = n_ids)

\* Two seeds, one found and one not: one node, two retrievals, one failure.
SeedFailureWitness ==
    /\ pc = "loop"
    /\ it = 0
    /\ n_ids = 2
    /\ Cardinality(Nodes) = 1
    /\ Cardinality(Frontier(0)) = 1
    /\ self.retrievals_total = 2
    /\ self.retrievals_failed = 1

\* The frontier the current or last pass has gathered.
NewFrontier ==
    IF pc \in {"loop", "done"} THEN Frontier(self.iter_depth)
    ELSE papers_iteration

\* C9. Every pair of a pass whose child is present has its edge
\* parent -> child in the graph, during and after the pass; a child whose
\* scopus_id was a node when the pass began (a paper of an earlier depth,
\* the parent itself) is not in the new frontier; and a pair whose child
\* is present and brings no new node leaves the accumulator as it was.
EdgeForEveryPair ==
    /\ [](ref_calls >= 1 =>
            /\ returned \subseteq Edges
            /\ \A e \in returned :
                 e[2] \in pass_nodes =>
                     \A q \in NewFrontier : q.scopus_id # e[2])
    /\ [][(pc = "iter" /\ resolved' = resolved + 1 /\
           DOMAIN self'.nodes = DOMAIN self.nodes) =>
             /\ papers_iteration' = papers_iteration
             /\ returned' \subseteq DOMAIN self'.edges]_vars

\* A first pass whose only pair is a paper citing itself: the self-loop is
\* there and the depth-1 frontier is empty.
EdgeForEveryPairWitness ==
    /\ pc = "loop"
    /\ self.iter_depth = 1
    /\ Cardinality(returned) = 1
    /\ \E e \in returned : e[1] = e[2] /\ e \in Edges
    /\ Frontier(1) = {}

\* The parents that cited scopus id c in the current or last pass.
CitingParents(c) == {e[1] : e \in {x \in returned : x[2] = c}}

\* C10. After a pass, a scopus id that was no node before it and that two
\* or more frontier papers cited is a node, belongs to exactly one paper of
\* the new frontier, and has an edge from each of these parents; the pass
\* added one node per child id it met and no other.
SharedChildOnce ==
    (pc \in {"loop", "done"} /\ it >= 1) =>
        /\ Nodes = pass_nodes \cup {e[2] : e \in returned}
        /\ \A c \in {e[2] : e \in returned} \ pass_nodes :
             Cardinality(CitingParents(c)) >= 2 =>
                 /\ c \in Nodes
                 /\ Cardinality({q \in Frontier(self.iter_depth) :
                                     q.scopus_id = c}) = 1
                 /\ \A p \in CitingParents(c) : <<p, c>> \in Edges

\* Two seed papers cite the same unseen paper in the first pass.
SharedChildOnceWitness ==
    /\ pc = "loop"
    /\ self.iter_depth = 1
    /\ \E c \in Nodes \ pass_nodes :
         /\ Cardinality(CitingParents(c)) = 2
         /\ Cardinality(Frontier(1)) = 1

\* The last step was a direct call of the named primitive.
Called(kind) ==
    /\ upserts'.calls = upserts.calls + 1
    /\ upserts'.last.kind = kind

\* C11. Node upsert is idempotent and first writer wins: after any sequence
\* of upserts the nodes are the distinct ids asked for, each with the
\* properties of its first upsert; upserting an id that is a node already
\* changes nothing, and upserting a new id adds that node and nothing else.
NodeUpsertFirstWriterWins ==
    /\ [](/\ self.nodes = upserts.first_props
          /\ Cardinality(Nodes) = Cardinality(DOMAIN upserts.first_props))
    /\ [][Called("node") =>
            LET n == upserts'.last.parent
            IN  IF n \in Nodes
                THEN self' = self
                ELSE self' = [self EXCEPT !.nodes =
                                 (n :> upserts'.last.props) @@ @]]_vars

\* The id 1 was upserted twice, the second time with other properties: one
\* node, with the first properties.
NodeUpsertWitness ==
    /\ upserts.calls = 2
    /\ upserts.last.kind = "node"
    /\ upserts.last.parent = 1
    /\ upserts.last.props = 2
    /\ Nodes = {1}
    /\ self.nodes[1] = 1

\* C12. Edge upsert is idempotent: the edges are the ordered pairs asked
\* for, one edge per pair, with both ends nodes; an upsert with a weight
\* sets the edge's weight to it, whatever it was; an upsert without a weight
\* leaves the weight of an existing edge alone and gives a new edge none;
\* no other edge changes.
EdgeUpsertIdempotent ==
    /\ [](/\ self.edges = upserts.last_weight
          /\ \A e \in Edges : e[1] \in Nodes /\ e[2] \in Nodes)
    /\ [][Called("edge") =>
            LET e == <<upserts'.last.parent, upserts'.last.child>>
                w == upserts'.last.weight
            IN  /\ DOMAIN self'.edges = Edges \cup {e}
                /\ \A f \in Edges \ {e} : self'.edges[f] = self.edges[f]
                /\ self'.edges[e] = IF w # NoWeight THEN w
                                    ELSE IF e \in Edges THEN self.edges[e]
                                    ELSE NoWeight]_vars

\* One pair was upserted with a weight and then without: one edge, which
\* keeps the weight.
EdgeUpsertWitness ==
    /\ upserts.calls = 2
    /\ upserts.last.kind = "edge"
    /\ upserts.last.weight = NoWeight
    /\ Cardinality(Edges) = 1
    /\ \A e \in Edges : self.edges[e] = 2

\* C13. When the collaborator raises, at a seed lookup or inside a pass,
\* the build stops there: the object is exactly what it was before the
\* error (nodes, edges, counters), iter_depth is the number of passes that
\* were completed, and no step follows.
FatalErrorStopsBuild ==
    /\ [][pc' = "aborted" =>
            /\ pc \in {"init", "iter"}
            /\ self' = self]_vars
    /\ [][pc # "aborted"]_vars
    /\ [](pc = "aborted" =>
            /\ self.iter_depth = it
            /\ ref_calls \in {it, it + 1}
            /\ InitCompleted => Depths = 0..it)

\* The second pass was aborted after it had consumed a pair: the edges of
\* both passes are there, iter_depth is 1.
FatalErrorWitness ==
    /\ pc = "aborted"
    /\ it = 1
    /\ ref_calls = 2
    /\ self.iter_depth = 1
    /\ returned # {}
    /\ Cardinality(Edges) >= 2
    /\ target_iter_depth = 2

\* C14. The graph only grows during a build: no step removes a node or an
\* edge, and no step changes the properties stored on a node, not even the
\* merge of another record with the same scopus_id.
GraphOnlyGrows ==
    [][/\ Nodes \subseteq DOMAIN self'.nodes
       /\ \A n \in Nodes : self'.nodes[n] = self.nodes[n]
       /\ Edges \subseteq DOMAIN self'.edges
       /\ \A e \in Edges : self'.edges[e] = self.edges[e]]_vars

\* Two records of paper 1 with different properties were both seeds, and a
\* pass has added a self-citation: one node, whose properties are those of
\* one of the records and did not change since.
GraphOnlyGrowsWitness ==
    /\ pc = "loop"
    /\ it = 1
    /\ found = {PaperRecord(1), PaperRecord(2)}
    /\ <<1, 1>> \in Edges
    /\ Nodes = {1}
    /\ self.nodes[1] \in {1, 2}

\* ------------------------------------------------------------------- C15
\* The rest of a pass whose references are two pairs <<parent, child>>, in
\* the order given: two turns of the loop and the closing assignments.
iterate_two(graph, papers, first, second) ==
    LET a == iterate_pair(graph, papers, first[1], first[2])
        b == iterate_pair(a.graph, a.papers, second[1], second[2])
    IN  iterate_end(b.graph, b.papers)

\* The pairs the reference lookup can return in the current pass.
References ==
    get_refs_parents(Frontier(self.iter_depth)) \X (PaperInfo \cup {None})

\* C15 as stated. From any point of a pass, exchanging the next two pairs
\* leaves the state at the end of the pass the same in every respect: nodes
\* with their attributes, edges, new frontier and both counters. (Exchanges
\* of neighbours generate every permutation of the pairs of a pass.)
PassOrderInsensitive ==
    pc = "iter" =>
        \A x \in References, y \in References :
            iterate_two(self, papers_iteration, x, y)
                = iterate_two(self, papers_iteration, y, x)

\* C15, amended. Exchanging the next two pairs of a pass never changes the
\* node set, the edges, the scopus_ids of the new frontier, iter_depth or
\* the counters at the end of the pass; the whole state is the same unless
\* the two children are different records of one scopus_id that is not yet
\* a node, in which case the record met first supplies the attributes of
\* the node and is the one that enters the new frontier.
PassOrderInsensitiveUpToRecords ==
    pc = "iter" =>
        \A x \in References, y \in References :
            LET xy == iterate_two(self, papers_iteration, x, y)
                yx == iterate_two(self, papers_iteration, y, x)
                d  == self.iter_depth + 1
            IN  /\ DOMAIN xy.nodes = DOMAIN yx.nodes
                /\ xy.edges = yx.edges
                /\ xy.iter_depth = yx.iter_depth
                /\ xy.retrievals_total = yx.retrievals_total
                /\ xy.retrievals_failed = yx.retrievals_failed
                /\ {c.scopus_id : c \in xy.papers_by_iter_depth[d]}
                       = {c.scopus_id : c \in yx.papers_by_iter_depth[d]}
                /\ (\/ x[2] = y[2]
                    \/ x[2].scopus_id # y[2].scopus_id
                    \/ x[2].scopus_id \in Nodes) => xy = yx
                /\ xy # yx =>
                       /\ xy.nodes[x[2].scopus_id] = graph_properties_as_dict(x[2])
                       /\ yx.nodes[y[2].scopus_id] = graph_properties_as_dict(y[2])
                       /\ x[2] \in xy.papers_by_iter_depth[d]
                       /\ y[2] \notin xy.papers_by_iter_depth[d]

\* Inside a pass that has already consumed a pair, paper 1 is not yet a
\* node and its two records are the children of the next two pairs: the
\* node and the new frontier end up with the record that came first.
PassOrderWitness ==
    /\ pc = "iter"
    /\ returned # {}
    /\ 1 \notin Nodes
    /\ \E p \in get_refs_parents(Frontier(self.iter_depth)) :
         LET xy == iterate_two(self, papers_iteration,
                               <<p, PaperRecord(1)>>, <<p, PaperRecord(2)>>)
             yx == iterate_two(self, papers_iteration,
                               <<p, PaperRecord(2)>>, <<p, PaperRecord(1)>>)
         IN  /\ xy.nodes[1] = 1
             /\ yx.nodes[1] = 2
             /\ xy.papers_by_iter_depth[self.iter_depth + 1]
                    # yx.papers_by_iter_depth[self.iter_depth + 1]

\* ------------------------------------------------------------------- C16
\* C16. Once the initialisation pass of a build on a new graph has returned,
\* papers_by_iter_depth[0] is the set of the distinct records the seed
\* lookups resolved (never more entries than successful lookups), use_doi
\* is the flag that was passed, and iter_depth is still 0 until the first
\* expansion pass closes; no later step changes papers_by_iter_depth[0] or
\* use_doi.
InitialFrontierIsSeeds ==
    /\ [](InitCompleted =>
            /\ Frontier(0) = found
            /\ Cardinality(Frontier(0)) <= resolved
            /\ self.use_doi = use_doi_arg
            /\ ref_calls \in {0, 1} /\ pc \in {"loop", "iter"} /\ it = 0
                   => self.iter_depth = 0)
    /\ [][InitCompleted =>
            /\ Frontier(0)' = Frontier(0)
            /\ self'.use_doi = self.use_doi]_vars

\* A build to depth 2 is over whose seeds resolved three times to two
\* distinct records, and whose passes found new papers: depth 0 still holds
\* exactly the two seed records.
InitialFrontierWitness ==
    /\ pc = "done"
    /\ self.iter_depth = 2
    /\ lookups = 3
    /\ resolved >= 4
    /\ Cardinality(found) = 2
    /\ Frontier(0) = found
    /\ Frontier(1) # {}
    /\ self.use_doi = "False"

\* ------------------------------------------------------------------- C17
\* C17. A pair of an expansion pass whose child is absent adds one to
\* retrievals_total and one to retrievals_failed and changes nothing else:
\* nodes with their attributes, edges, the frontier being collected,
\* iter_depth, papers_by_iter_depth and use_doi stay as they are, and the
\* pass goes on (it can take further pairs, and closes as usual).
AbsentChildOnlyCounts ==
    /\ [][pc = "iter" /\ pc' = "iter" /\ resolved' = resolved =>
            /\ self'.retrievals_total = self.retrievals_total + 1
            /\ self'.retrievals_failed = self.retrievals_failed + 1
            /\ self' = [self EXCEPT !.retrievals_total = @ + 1,
                                    !.retrievals_failed = @ + 1]
            /\ papers_iteration' = papers_iteration
            /\ returned' = returned
            /\ it' = it]_vars
    /\ [](pc = "iter" => ENABLED IterEnd)
    /\ [](/\ pc = "iter"
          /\ Frontier(self.iter_depth) # {}
          /\ self.retrievals_total < MaxRetrievals
          => ENABLED IterPair)

\* A pass met an absent child and then a present one: one failure, and the
\* later pair has its edge and its node.
AbsentChildWitness ==
    /\ pc = "iter"
    /\ lookups = 1
    /\ self.retrievals_total = 3
    /\ self.retrievals_failed = 1
    /\ resolved = 2
    /\ Cardinality(Edges) = 1
    /\ Cardinality(Nodes) = 2
    /\ papers_iteration # {}

\* ------------------------------------------------------------------- C18
\* A first build has completed on this object.
FirstBuildDone == snapshot.use_doi # Unset

\* The bookkeeping the first build left is still there: every depth it
\* recorded with the frontier it recorded, its iter_depth and its use_doi.
BookkeepingKept ==
    /\ \A d \in DOMAIN snapshot.papers_by_iter_depth :
           /\ d \in Depths
           /\ Frontier(d) = snapshot.papers_by_iter_depth[d]
    /\ self.iter_depth = snapshot.iter_depth
    /\ self.use_doi = snapshot.use_doi

\* C18 as stated. A second call of build_from_ids on an object whose build
\* has completed is rejected: __initialise does not run again, and the
\* papers_by_iter_depth entries, iter_depth and use_doi of the first build
\* stay as they were.
SecondBuildRejected ==
    FirstBuildDone => init_runs = 1 /\ BookkeepingKept

\* The second call has run to its end and the frontier the first build
\* recorded at its last depth has been replaced by the seeds of the second.
SecondBuildOverwrites ==
    /\ pc = "done"
    /\ init_runs = 2
    /\ snapshot.iter_depth = 1
    /\ self.iter_depth = 1
    /\ snapshot.papers_by_iter_depth[1] # {}
    /\ Frontier(1) # snapshot.papers_by_iter_depth[1]
    /\ self.use_doi # snapshot.use_doi

\* ------------------------------------------------------------------- C19
\* The sizes of the frontiers of depths 0..d, added up.
RECURSIVE FrontierSizeSum(_)
FrontierSizeSum(d) ==
    IF d < 0 THEN 0 ELSE Cardinality(Frontier(d)) + FrontierSizeSum(d - 1)

\* The scopus_ids of all papers of all frontiers.
AllFrontierIds == UNION {FrontierIds(d) : d \in Depths}

\* __initialise or a pass has just returned.
BetweenPasses == pc \in {"loop", "done"}

\* C19 as stated. After initialisation and after every completed pass the
\* nodes are the scopus_ids of the frontier papers, and the sizes of the
\* frontiers add up to the number of nodes.
FrontiersCoverExactly ==
    BetweenPasses =>
        /\ Nodes = AllFrontierIds
        /\ FrontierSizeSum(self.iter_depth) = Cardinality(Nodes)

\* C19, amended. After initialisation and after every completed pass the
\* nodes are the scopus_ids of the frontier papers and every node's id
\* occurs at one depth only. A frontier of depth 1 or more holds one record
\* per id; the depth-0 frontier holds every distinct record the seeds
\* resolved to, which can be several for one id. So the number of nodes is
\* the number of distinct ids at depth 0 plus the sizes of the later
\* frontiers, and the sizes of all frontiers add up to the number of nodes
\* exactly when no two seed records share a scopus_id (otherwise to more).
FrontiersCoverUpToSeedRecords ==
    BetweenPasses =>
        /\ Nodes = AllFrontierIds
        /\ \A d \in Depths, e \in Depths :
               d # e => FrontierIds(d) \cap FrontierIds(e) = {}
        /\ \A d \in Depths \ {0} :
               Cardinality(FrontierIds(d)) = Cardinality(Frontier(d))
        /\ Cardinality(Nodes)
               = Cardinality(FrontierIds(0))
                   + FrontierSizeSum(self.iter_depth) - Cardinality(Frontier(0))
        /\ FrontierSizeSum(self.iter_depth) >= Cardinality(Nodes)
        /\ FrontierSizeSum(self.iter_depth) = Cardinality(Nodes)
               <=> Cardinality(FrontierIds(0)) = Cardinality(Frontier(0))

\* A build to depth 2 is over whose seeds resolved to the two records of
\* paper 1 and whose first pass found a new paper: two nodes, three
\* frontier entries.
FrontiersCoverWitness ==
    /\ pc = "done"
    /\ self.iter_depth = 2
    /\ Frontier(0) = {PaperRecord(1), PaperRecord(2)}
    /\ Cardinality(Frontier(1)) = 1
    /\ Cardinality(Nodes) = 2
    /\ FrontierSizeSum(2) = 3

\* ------------------------------------------------------------------- C20
\* The build stands in or between passes, and the current frontier is empty.
OnEmptyFrontier ==
    /\ pc \in {"loop", "iter"}
    /\ Frontier(self.iter_depth) = {}

\* C20. An empty frontier does not end the build. With an empty current
\* frontier (for which the lookup returns no pair) a pass that is due still
\* starts, and all it does is to advance iter_depth by one and to record an
\* empty frontier at the new depth: nodes, edges and both counters stay as
\* they are. The same holds for every remaining pass, so the build ends
\* with iter_depth at its target and every later frontier empty.
EmptyFrontierNoEarlyStop ==
    /\ [][OnEmptyFrontier =>
            /\ self'.nodes = self.nodes
            /\ self'.edges = self.edges
            /\ self'.retrievals_total = self.retrievals_total
            /\ self'.retrievals_failed = self.retrievals_failed
            /\ pc = "loop" /\ loop_continues(it, target_iter_depth)
                   => pc' = "iter" /\ self' = self
            /\ pc = "iter"
                   => /\ pc' = "loop"
                      /\ self' = [self EXCEPT
                             !.iter_depth = @ + 1,
                             !.papers_by_iter_depth =
                                 ((self.iter_depth + 1) :> {}) @@ @]]_vars
    /\ [](pc = "done" => self.iter_depth = target_iter_depth)
    /\ [](pc \in {"loop", "iter", "done"} =>
            \A d \in Depths, e \in Depths :
                Frontier(d) = {} /\ e > d => Frontier(e) = {})
    /\ OnEmptyFrontier ~> (pc = "done" /\ self.iter_depth = target_iter_depth)

\* A build to depth 2 is over whose only pair of the first pass had no
\* child: the frontier of depth 1 is empty, the second pass ran all the
\* same and recorded an empty frontier of depth 2.
EmptyFrontierWitness ==
    /\ pc = "done"
    /\ target_iter_depth = 2
    /\ self.iter_depth = 2
    /\ ref_calls = 2
    /\ Depths = 0..2
    /\ Frontier(0) # {}
    /\ Frontier(1) = {}
    /\ Frontier(2) = {}
    /\ self.retrievals_failed > 0

====
